---- MODULE Spec2Model ----
(***************************************************************************)
(* A model of src/vs/workbench/contrib/format/browser/                     *)
(* formatActionsMultiple.ts.  The file holds two independent units:        *)
(*                                                                         *)
(*   - the two picker commands "Format Document With..." and "Format       *)
(*     Selection With..." (lines 22-153), and                              *)
(*   - the admin-tool launcher: activate, the launch command handler,      *)
(*     launchSsmsDialog and buildSsmsMinCommandArgs (lines 155-290).       *)
(*                                                                         *)
(* Collaborators that live outside the file (the quick-pick service, the   *)
(* formatter registries, the formatting call, the download service, the    *)
(* process facility) are modelled by their observable outcomes: every      *)
(* way a promise can settle is a separate action.                          *)
(***************************************************************************)
EXTENDS Integers, Sequences, FiniteSets, TLC

(***************************************************************************)
(* Bounds of the model.                                                    *)
(***************************************************************************)
\* number of picker command invocations in one behaviour
MaxInv == 1
\* number of distinct formatting providers that can be registered
NumProviders == 2
\* number of lines of the document in the editor
MaxLine == 2
\* largest length of a line of the document
MaxLineLen == 1
\* number of invocations of the launch command in one behaviour
MaxLaunch == 2

VARIABLES
    \* ---- picker commands ----
    writable,      \* context key EditorContextKeys.writable
    registry,      \* mode -> ordered list of providers currently registered
    lineLength,    \* the document: line number -> length of the line
    selection,     \* the editor's current selection
    inv,           \* the invocations of the picker commands (locals of run)
    formatCalls,   \* the formatting calls made, in order
    telemetry,     \* the records handed to telemetryService.publicLog, in order
    reveal         \* outcome of the last "show extension" button handler

pickerVars == <<writable, registry, lineLength, selection, inv, formatCalls,
                telemetry, reveal>>

VARIABLES
    \* ---- admin-tool launcher ----
    platform,      \* process.platform
    activation,    \* what activate returned, and the state of that promise
    download,      \* the promise of serverdownloader.getOrDownloadServer()
    pathRequest,   \* the promise of serverdownloader.getServerPath()
    registered,    \* the launch command is registered
    exePath,       \* the module variable exePath (line 173)
    effects,       \* notifications, telemetry, spawns, stdin writes, in order
    procs,         \* the processes spawned by shelljs.exec
    launches       \* number of invocations of the launch command so far

launcherVars == <<platform, activation, download, pathRequest, registered,
                  exePath, effects, procs, launches>>

VARIABLES
    \* ---- buildSsmsMinCommandArgs as a function of its argument ----
    params,        \* a LaunchSsmsDialogParams value
    args           \* the string built from it, once built

argsVars == <<params, args>>

vars == <<pickerVars, launcherVars, argsVars>>

(***************************************************************************)
(* JavaScript's undefined, for optional values that are objects.           *)
(***************************************************************************)
undefined == [undefined |-> TRUE]

Modes == {"document", "range"}

(***************************************************************************)
(* Formatting providers.  extensionId is optional (line 31); an            *)
(* ExtensionIdentifier holds the identifier as written (value) and its     *)
(* lower-cased key (_lower), which ExtensionIdentifier.toKey returns.      *)
(***************************************************************************)
Provider(n) ==
    CASE n = 1 -> [displayName |-> "Acme",
                   extensionId |-> [value |-> "Acme.Fmt", _lower |-> "acme.fmt"]]
      [] n = 2 -> [displayName |-> "", extensionId |-> undefined]
      [] n = 3 -> [displayName |-> "Beta",
                   extensionId |-> [value |-> "Beta.Fmt", _lower |-> "beta.fmt"]]
      [] OTHER -> [displayName |-> "Builtin", extensionId |-> undefined]

Providers == {Provider(n) : n \in 1..NumProviders}

\* the ordered lists a registry can return: no provider twice
ProviderLists ==
    UNION {{l \in [1..n -> Providers] : \A a, b \in 1..n : l[a] = l[b] => a = b}
           : n \in 0..NumProviders}

(***************************************************************************)
(* The document and the selection.  Columns are 1-based; a line of length  *)
(* n has the columns 1..n+1.                                               *)
(***************************************************************************)
Lines == 1..MaxLine

Documents == [Lines -> 0..MaxLineLen]

getLineMaxColumn(doc, lineNumber) == doc[lineNumber] + 1

Range(startLineNumber, startColumn, endLineNumber, endColumn) ==
    [startLineNumber |-> startLineNumber, startColumn |-> startColumn,
     endLineNumber |-> endLineNumber, endColumn |-> endColumn]

isEmpty(range) ==
    /\ range.startLineNumber = range.endLineNumber
    /\ range.startColumn = range.endColumn

\* the selections an editor holding doc can have: start not after end
Selections(doc) ==
    {Range(sl, sc, el, ec) :
        <<sl, sc, el, ec>> \in
            {t \in Lines \X (1..MaxLineLen + 1) \X Lines \X (1..MaxLineLen + 1) :
                /\ t[2] <= getLineMaxColumn(doc, t[1])
                /\ t[4] <= getLineMaxColumn(doc, t[3])
                /\ \/ t[1] < t[3]
                   \/ t[1] = t[3] /\ t[2] <= t[4]}}

\* faulty variant of computeRange: widens from the cursor to the end of the line
computeRange_fromCursor(sel, doc) ==
    IF isEmpty(sel)
    THEN Range(sel.startLineNumber, sel.startColumn, sel.startLineNumber,
               getLineMaxColumn(doc, sel.startLineNumber))
    ELSE sel

(***************************************************************************)
(* Lines 126-129: the range a "Format Selection With..." invocation        *)
(* formats.                                                                *)
(***************************************************************************)
computeRange(sel, doc) ==
    IF isEmpty(sel)
    THEN Range(sel.startLineNumber, 1, sel.startLineNumber,
               getLineMaxColumn(doc, sel.startLineNumber))
    ELSE sel

(***************************************************************************)
(* Lines 77-83 and 132-138: one picker entry per provider, carrying the    *)
(* provider's position (0-based, as in the code) and its label.            *)
(***************************************************************************)
picks(provider) ==
    [k \in 1..Len(provider) |->
        [index |-> k - 1,
         label |-> provider[k].displayName]]

\* faulty variant of providerAt: reads the index as 1-based, wrapping at the end
providerAt_offByOne(provider, index) ==
    provider[IF index = 0 THEN Len(provider) ELSE index]

\* provider[index], with the code's 0-based index
providerAt(provider, index) == provider[index + 1]

(***************************************************************************)
(* Lines 31-49: logFormatterTelemetry.  pick is a provider or undefined.   *)
(***************************************************************************)
extKey(obj) ==
    IF obj.extensionId # undefined THEN obj.extensionId._lower ELSE "unknown"

\* faulty variant of logFormatterTelemetry: logs only when a provider was picked
logFormatterTelemetry_onlyPicked(log, by, mode, options, pick) ==
    IF pick = undefined
    THEN log
    ELSE Append(log,
            [event |-> "formatterpick",
             by |-> by,
             mode |-> mode,
             extensions |-> [k \in 1..Len(options) |-> extKey(options[k])],
             pick |-> extKey(pick)])

logFormatterTelemetry(log, by, mode, options, pick) ==
    Append(log,
        [event |-> "formatterpick",
         by |-> by,
         mode |-> mode,
         extensions |-> [k \in 1..Len(options) |-> extKey(options[k])],
         pick |-> IF pick # undefined THEN extKey(pick) ELSE "none"])

(***************************************************************************)
(* Lines 58 and 107: the preconditions of the two commands.  The context   *)
(* keys hasMultipleDocumentFormattingProvider and                          *)
(* hasMultipleDocumentSelectionFormattingProvider say that more than one   *)
(* provider is registered.                                                 *)
(***************************************************************************)
\* faulty variant of precondition: one provider is enough
precondition_anyProvider(mode) == writable /\ Len(registry[mode]) > 0

precondition(mode) == writable /\ Len(registry[mode]) > 1

\* EditorAction, the base class of both commands (lines 51 and 100): the
\* host starts the body of a command only while its precondition holds
runEditorCommand(mode) == precondition(mode)

(***************************************************************************)
(* The locals of one invocation of run.  pc is the place the invocation    *)
(* is at: "idle" (not started), "picking" (awaiting the quick pick, line   *)
(* 85 or 140), "formatting" (awaiting the formatting call, line 93 or      *)
(* 148), "done" (ran to the end, line 97 or 152), "noModel" (returned at   *)
(* line 68 or 118), "rejected" (the awaited formatting call failed).       *)
(* selection is what editor.getSelection() returned at line 126.           *)
(***************************************************************************)
idleInv ==
    [pc |-> "idle", mode |-> "document", provider |-> <<>>,
     selection |-> undefined, range |-> undefined, pick |-> undefined]

Invocations == 1..MaxInv

\* invocations are numbered in the order they start
IsNext(i) ==
    /\ inv[i].pc = "idle"
    /\ \A j \in Invocations : j < i => inv[j].pc # "idle"

(***************************************************************************)
(* Lines 66-85 and 116-140: run, up to the await of the quick pick.        *)
(***************************************************************************)
Run(i, mode) ==
    /\ IsNext(i)
    /\ runEditorCommand(mode)
    /\ inv' = [inv EXCEPT ![i] =
                [pc |-> "picking",
                 mode |-> mode,
                 provider |-> registry[mode],
                 selection |-> IF mode = "range" THEN selection ELSE undefined,
                 range |-> IF mode = "range"
                           THEN computeRange(selection, lineLength)
                           ELSE undefined,
                 pick |-> undefined]]
    /\ UNCHANGED <<launcherVars, argsVars, writable, registry, lineLength, selection, formatCalls,
                   telemetry, reveal>>

\* faulty variant of RunNoModel: the test of lines 67 and 117 is missing
RunNoModel_unchecked(i, mode) ==
    /\ IsNext(i)
    /\ runEditorCommand(mode)
    /\ inv' = [inv EXCEPT ![i] =
                [idleInv EXCEPT !.pc = "picking", !.mode = mode,
                                !.provider = registry[mode]]]
    /\ UNCHANGED <<launcherVars, argsVars, writable, registry, lineLength, selection, formatCalls,
                   telemetry, reveal>>

(***************************************************************************)
(* Lines 67-69 and 117-119: the editor holds no model.                     *)
(***************************************************************************)
RunNoModel(i, mode) ==
    /\ IsNext(i)
    /\ runEditorCommand(mode)
    /\ inv' = [inv EXCEPT ![i] = [idleInv EXCEPT !.pc = "noModel", !.mode = mode]]
    /\ UNCHANGED <<launcherVars, argsVars, writable, registry, lineLength, selection, formatCalls,
                   telemetry, reveal>>

(***************************************************************************)
(* Lines 87-90 and 142-145: the button of the entry item is triggered      *)
(* while the picker is open.  extensionId!.value on a provider without an  *)
(* extension identifier reads a property of undefined: a TypeError.        *)
(***************************************************************************)
onDidTriggerItemButton(i, item) ==
    LET extensionId == providerAt(inv[i].provider, item.index).extensionId
    IN  IF extensionId # undefined
        THEN [by |-> i, index |-> item.index, outcome |-> "showExtensionQuery",
              query |-> "@id:" \o extensionId.value]
        ELSE [by |-> i, index |-> item.index, outcome |-> "TypeError",
              query |-> ""]

\* faulty variant of TriggerItemButton: the button accepts the entry
TriggerItemButton_accepts(i, k) ==
    /\ inv[i].pc = "picking"
    /\ k \in DOMAIN picks(inv[i].provider)
    /\ reveal' = onDidTriggerItemButton(i, picks(inv[i].provider)[k])
    /\ inv' = [inv EXCEPT ![i].pc = "formatting",
                          ![i].pick = picks(inv[i].provider)[k]]
    /\ UNCHANGED <<launcherVars, argsVars, writable, registry, lineLength, selection, formatCalls,
                   telemetry>>

TriggerItemButton(i, k) ==
    /\ inv[i].pc = "picking"
    /\ k \in DOMAIN picks(inv[i].provider)
    /\ reveal' = onDidTriggerItemButton(i, picks(inv[i].provider)[k])
    /\ UNCHANGED <<launcherVars, argsVars, writable, registry, lineLength, selection, inv, formatCalls,
                   telemetry>>

(***************************************************************************)
(* Lines 85, 92-94 and 140, 147-149: the quick pick resolves with an       *)
(* entry, and the formatting call is made.                                 *)
(***************************************************************************)
formatCall(i, pick) ==
    [by |-> i,
     fn |-> IF inv[i].mode = "document"
            THEN "formatDocumentWithProvider"
            ELSE "formatDocumentRangeWithProvider",
     provider |-> providerAt(inv[i].provider, pick.index),
     range |-> inv[i].range]

\* faulty variant of PickEntry: the formatting call is not awaited
PickEntry_notAwaited(i, k) ==
    /\ inv[i].pc = "picking"
    /\ k \in DOMAIN picks(inv[i].provider)
    /\ LET pick == picks(inv[i].provider)[k]
       IN  /\ inv' = [inv EXCEPT ![i].pc = "done", ![i].pick = pick]
           /\ formatCalls' = Append(formatCalls, formatCall(i, pick))
           /\ telemetry' = logFormatterTelemetry(telemetry, i, inv[i].mode,
                                inv[i].provider, providerAt(inv[i].provider, pick.index))
    /\ UNCHANGED <<launcherVars, argsVars, writable, registry, lineLength, selection, reveal>>

PickEntry(i, k) ==
    /\ inv[i].pc = "picking"
    /\ k \in DOMAIN picks(inv[i].provider)
    /\ LET pick == picks(inv[i].provider)[k]
       IN  /\ inv' = [inv EXCEPT ![i].pc = "formatting", ![i].pick = pick]
           /\ formatCalls' = Append(formatCalls, formatCall(i, pick))
    /\ UNCHANGED <<launcherVars, argsVars, writable, registry, lineLength, selection, telemetry, reveal>>

(***************************************************************************)
(* Lines 85, 92, 96 and 140, 147, 151: the quick pick resolves with        *)
(* undefined (the user cancelled).                                         *)
(***************************************************************************)
pickedProvider(i, pick) ==
    IF pick # undefined THEN providerAt(inv[i].provider, pick.index) ELSE undefined

PickCancel(i) ==
    /\ inv[i].pc = "picking"
    /\ inv' = [inv EXCEPT ![i].pc = "done"]
    /\ telemetry' = logFormatterTelemetry(telemetry, i, inv[i].mode,
                        inv[i].provider, pickedProvider(i, undefined))
    /\ UNCHANGED <<launcherVars, argsVars, writable, registry, lineLength, selection, formatCalls, reveal>>

(***************************************************************************)
(* Lines 93, 96 and 148, 151: the awaited formatting call completes.       *)
(***************************************************************************)
FormatResolved(i) ==
    /\ inv[i].pc = "formatting"
    /\ inv' = [inv EXCEPT ![i].pc = "done"]
    /\ telemetry' = logFormatterTelemetry(telemetry, i, inv[i].mode,
                        inv[i].provider, pickedProvider(i, inv[i].pick))
    /\ UNCHANGED <<launcherVars, argsVars, writable, registry, lineLength, selection, formatCalls, reveal>>

(***************************************************************************)
(* Lines 93 and 148: the awaited formatting call fails; run has no         *)
(* handler, so its promise rejects and line 96 (151) is not reached.       *)
(***************************************************************************)
FormatRejected(i) ==
    /\ inv[i].pc = "formatting"
    /\ inv' = [inv EXCEPT ![i].pc = "rejected"]
    /\ UNCHANGED <<launcherVars, argsVars, writable, registry, lineLength, selection, formatCalls,
                   telemetry, reveal>>

(***************************************************************************)
(* The environment: the user moves the selection (read at line 126), and   *)
(* extensions register and unregister providers (read at lines 76, 131).   *)
(***************************************************************************)
SetSelection(sel) ==
    /\ sel \in Selections(lineLength)
    /\ sel # selection
    /\ selection' = sel
    /\ UNCHANGED <<launcherVars, argsVars, writable, registry, lineLength, inv, formatCalls, telemetry,
                   reveal>>

RegistryChange(mode, list) ==
    /\ list # registry[mode]
    /\ registry' = [registry EXCEPT ![mode] = list]
    /\ UNCHANGED <<launcherVars, argsVars, writable, lineLength, selection, inv, formatCalls, telemetry,
                   reveal>>

noReveal == [by |-> 0, index |-> 0, outcome |-> "none", query |-> ""]

(***************************************************************************)
(*                          The admin-tool launcher                        *)
(*                                                                         *)
(* A string is a sequence of pieces of text.  The text of the templates    *)
(* of the code is spelled character by character; the value of a field is  *)
(* kept as the pieces it was given as.  The empty string is <<>>.          *)
(* undefinedStr stands for JavaScript's undefined where a string may be.   *)
(***************************************************************************)
undefinedStr == <<"<undefined>">>

\* truthiness of an optional string: neither undefined nor empty
truthy(v) == v # undefinedStr /\ v # <<>>

\* the conversion of a value spliced into a string
toString(v) ==
    IF v = undefinedStr THEN <<"u", "n", "d", "e", "f", "i", "n", "e", "d">> ELSE v

\* an optional boolean: "true", "false" or "undefined"
OptBool == {"true", "false", "undefined"}

propertiesAction == <<"sqla:Properties@Microsoft.SqlServer.Management.Smo.Server">>

\* faulty variant of buildSsmsMinCommandArgs: the server comes first
buildSsmsMinCommandArgs_serverFirst(p) ==
    (IF truthy(p.server)
        THEN <<"-", "S", " ", "\"">> \o toString(p.server) \o <<"\"">> ELSE <<>>)
    \o <<" ", " ", " ", " ">>
    \o (IF truthy(p.action)
        THEN <<"-", "a", " ", "\"">> \o toString(p.action) \o <<"\"">> ELSE <<>>)
    \o <<" ", " ", " ", " ", " ">>
    \o (IF truthy(p.database)
        THEN <<"-", "D", " ", "\"">> \o toString(p.database) \o <<"\"">> ELSE <<>>)
    \o <<" ", " ", " ", " ", " ">>
    \o (IF p.useAad # "true"
        THEN <<"-", "U", " ", "\"">> \o toString(p.user) \o <<"\"">> ELSE <<>>)
    \o <<" ", " ", " ", " ", " ">>
    \o (IF p.useAad = "true" THEN <<"-", "G">> ELSE <<>>)
    \o <<" ", " ", " ", " ", " ">>
    \o (IF truthy(p.urn)
        THEN <<"-", "u", " ", "\"">> \o toString(p.urn) \o <<"\"">> ELSE <<>>)

\* faulty variant of buildSsmsMinCommandArgs: the user flag is always emitted
buildSsmsMinCommandArgs_alwaysUser(p) ==
    (IF truthy(p.action)
        THEN <<"-", "a", " ", "\"">> \o toString(p.action) \o <<"\"">> ELSE <<>>)
    \o <<" ", " ", " ", " ">>
    \o (IF truthy(p.server)
        THEN <<"-", "S", " ", "\"">> \o toString(p.server) \o <<"\"">> ELSE <<>>)
    \o <<" ", " ", " ", " ", " ">>
    \o (IF truthy(p.database)
        THEN <<"-", "D", " ", "\"">> \o toString(p.database) \o <<"\"">> ELSE <<>>)
    \o <<" ", " ", " ", " ", " ">>
    \o <<"-", "U", " ", "\"">> \o toString(p.user) \o <<"\"">>
    \o <<" ", " ", " ", " ", " ">>
    \o (IF p.useAad = "true" THEN <<"-", "G">> ELSE <<>>)
    \o <<" ", " ", " ", " ", " ">>
    \o (IF truthy(p.urn)
        THEN <<"-", "u", " ", "\"">> \o toString(p.urn) \o <<"\"">> ELSE <<>>)

(***************************************************************************)
(* Lines 283-290: buildSsmsMinCommandArgs.  A backslash at the end of a    *)
(* line of the template continues the line: the line break is dropped and  *)
(* the four spaces that indent the next line stay, after the space that    *)
(* precedes the backslash on lines 285-288.                                *)
(***************************************************************************)
buildSsmsMinCommandArgs(p) ==
    (IF truthy(p.action)
        THEN <<"-", "a", " ", "\"">> \o toString(p.action) \o <<"\"">> ELSE <<>>)
    \o <<" ", " ", " ", " ">>
    \o (IF truthy(p.server)
        THEN <<"-", "S", " ", "\"">> \o toString(p.server) \o <<"\"">> ELSE <<>>)
    \o <<" ", " ", " ", " ", " ">>
    \o (IF truthy(p.database)
        THEN <<"-", "D", " ", "\"">> \o toString(p.database) \o <<"\"">> ELSE <<>>)
    \o <<" ", " ", " ", " ", " ">>
    \o (IF p.useAad # "true"
        THEN <<"-", "U", " ", "\"">> \o toString(p.user) \o <<"\"">> ELSE <<>>)
    \o <<" ", " ", " ", " ", " ">>
    \o (IF p.useAad = "true" THEN <<"-", "G">> ELSE <<>>)
    \o <<" ", " ", " ", " ", " ">>
    \o (IF truthy(p.urn)
        THEN <<"-", "u", " ", "\"">> \o toString(p.urn) \o <<"\"">> ELSE <<>>)

(***************************************************************************)
(* The connection profiles a launch can be given.                          *)
(***************************************************************************)
Profiles ==
    [serverName : {<<"srv">>},
     databaseName : {undefinedStr, <<"db">>},
     userName : {undefinedStr, <<"sa">>},
     password : {undefinedStr, <<>>, <<"pw">>},
     authenticationType : {"SqlLogin", "AzureMFA"}]

\* the argument of the command handler: undefined, a context without a
\* connection profile, or a context with one
Contexts ==
    {[kind |-> "undefined"], [kind |-> "noProfile"]}
        \cup {[kind |-> "profile", connectionProfile |-> c] : c \in Profiles}

\* what getServerPath can resolve with
ServerPaths == {undefinedStr, <<>>, <<"C:\\ssmsmin\\SsmsMin.exe">>}

\* how a spawned process can end: exit code and captured standard error
Exits == {[code |-> 0, stderr |-> <<>>], [code |-> 1, stderr |-> <<"failed">>]}

\* faulty variant of Activate: the platform is not looked at
Activate_anyPlatform ==
    /\ activation = "notCalled"
    /\ registered' = TRUE
    /\ download' = "pending"
    /\ activation' = "pending"
    /\ UNCHANGED <<pickerVars, argsVars, platform, pathRequest, exePath, effects,
                   procs, launches>>

(***************************************************************************)
(* Lines 187-226: activate, up to its return.                              *)
(***************************************************************************)
Activate ==
    /\ activation = "notCalled"
    /\ registered' = TRUE
    /\ IF platform = "win32"
       THEN /\ download' = "pending"
            /\ activation' = "pending"
            /\ effects' = effects
       ELSE /\ effects' = Append(effects,
                    [kind |-> "showErrorMessage",
                     message |-> "adminToolExtWin.onlySupportedOnWindows"])
            /\ activation' = "returnedUndefined"
            /\ download' = download
    /\ UNCHANGED <<pickerVars, argsVars, platform, pathRequest, exePath, procs,
                   launches>>

(***************************************************************************)
(* Lines 202-209: getOrDownloadServer() is fulfilled.                      *)
(***************************************************************************)
DownloadFulfilled ==
    /\ download = "pending"
    /\ download' = "fulfilled"
    /\ effects' = Append(effects,
            [kind |-> "telemetry", name |-> "startup/ExtensionStarted"])
    /\ pathRequest' = "pending"
    /\ UNCHANGED <<pickerVars, argsVars, platform, activation, registered,
                   exePath, procs, launches>>

\* faulty variant of DownloadRejected: the failure is handled as a success
DownloadRejected_asFulfilled ==
    /\ download = "pending"
    /\ download' = "rejected"
    /\ effects' = Append(effects,
            [kind |-> "telemetry", name |-> "startup/ExtensionStarted"])
    /\ pathRequest' = "pending"
    /\ UNCHANGED <<pickerVars, argsVars, platform, activation, registered,
                   exePath, procs, launches>>

(***************************************************************************)
(* Lines 217-221: getOrDownloadServer() is rejected.                       *)
(***************************************************************************)
DownloadRejected ==
    /\ download = "pending"
    /\ download' = "rejected"
    /\ effects' = Append(effects,
            [kind |-> "telemetry", name |-> "startup/ExtensionInitializationFailed"])
    /\ activation' = "resolved"
    /\ UNCHANGED <<pickerVars, argsVars, platform, pathRequest, registered,
                   exePath, procs, launches>>

\* faulty variant of PathFulfilled: the test of line 210 is missing
PathFulfilled_unguarded(path) ==
    /\ pathRequest = "pending"
    /\ pathRequest' = "fulfilled"
    /\ exePath' = path
    /\ activation' = "resolved"
    /\ UNCHANGED <<pickerVars, argsVars, platform, download, registered, effects,
                   procs, launches>>

(***************************************************************************)
(* Lines 209-216: getServerPath() is fulfilled with path.                  *)
(***************************************************************************)
PathFulfilled(path) ==
    /\ pathRequest = "pending"
    /\ pathRequest' = "fulfilled"
    /\ exePath' = IF truthy(path) THEN path ELSE exePath
    /\ activation' = "resolved"
    /\ UNCHANGED <<pickerVars, argsVars, platform, download, registered, effects,
                   procs, launches>>

(***************************************************************************)
(* Line 209: getServerPath() is rejected.  then() is given no rejection    *)
(* handler, so nothing of activate runs.                                   *)
(***************************************************************************)
PathRejected ==
    /\ pathRequest = "pending"
    /\ pathRequest' = "rejected"
    /\ UNCHANGED <<pickerVars, argsVars, platform, activation, download,
                   registered, exePath, effects, procs, launches>>

(***************************************************************************)
(* Lines 252-259: the parameters launchSsmsDialog builds.                  *)
(***************************************************************************)
launchParams(connectionProfile, urn) ==
    [action |-> propertiesAction,
     server |-> connectionProfile.serverName,
     database |-> connectionProfile.databaseName,
     password |-> connectionProfile.password,
     user |-> connectionProfile.userName,
     useAad |-> IF connectionProfile.authenticationType = "AzureMFA"
                THEN "true" ELSE "false",
     urn |-> urn]

\* faulty variant of hasExePath: the check of line 245 is missing
hasExePath_unchecked(path) == TRUE

\* line 245: the negation of !exePath
hasExePath(path) == truthy(path)

\* faulty variant of stdinData: the condition of line 274 is inverted
stdinData_inverted(p) ==
    IF p.useAad = "true"
    THEN <<IF truthy(p.password) THEN p.password ELSE <<>>>>
    ELSE <<>>

\* lines 274-276: the values written to the input stream of the process
\* before it is closed; none when the stream is not touched
stdinData(p) ==
    IF p.useAad # "true"
    THEN <<IF truthy(p.password) THEN p.password ELSE <<>>>>
    ELSE <<>>

\* faulty variant of launchSsmsDialog: the launch event is sent after exec
launchSsmsDialog_eventAfterSpawn(action, connectionProfile, urn) ==
    IF ~hasExePath(exePath)
    THEN <<[kind |-> "showErrorMessage", message |-> "adminToolExtWin.noExeError"]>>
    ELSE LET p == launchParams(connectionProfile, urn)
             n == Len(procs) + 1
         IN  <<[kind |-> "exec", proc |-> n,
                command |-> <<"\"">> \o toString(exePath) \o <<"\"", " ">>
                            \o buildSsmsMinCommandArgs(p)],
               [kind |-> "telemetry", name |-> "LaunchSsmsDialog",
                action |-> action]>>
             \o [k \in 1..Len(stdinData(p)) |->
                    [kind |-> "stdin.end", proc |-> n, data |-> stdinData(p)[k]]]

(***************************************************************************)
(* Lines 244-277: launchSsmsDialog, as the effects it appends.             *)
(***************************************************************************)
launchSsmsDialog(action, connectionProfile, urn) ==
    IF ~hasExePath(exePath)
    THEN <<[kind |-> "showErrorMessage", message |-> "adminToolExtWin.noExeError"]>>
    ELSE LET p == launchParams(connectionProfile, urn)
             n == Len(procs) + 1
         IN  <<[kind |-> "telemetry", name |-> "LaunchSsmsDialog",
                action |-> action],
               [kind |-> "exec", proc |-> n,
                command |-> <<"\"">> \o toString(exePath) \o <<"\"", " ">>
                            \o buildSsmsMinCommandArgs(p)]>>
             \o [k \in 1..Len(stdinData(p)) |->
                    [kind |-> "stdin.end", proc |-> n, data |-> stdinData(p)[k]]]

\* faulty variant of spawned: exec is synchronous, the process has ended
\* when the command returns
spawned_synchronous(newEffects, p) ==
    IF \E k \in DOMAIN newEffects : newEffects[k].kind = "exec"
    THEN <<[state |-> "exited", params |-> p]>>
    ELSE <<>>

spawned(newEffects, p) ==
    IF \E k \in DOMAIN newEffects : newEffects[k].kind = "exec"
    THEN <<[state |-> "running", params |-> p]>>
    ELSE <<>>

\* faulty variant of Launch: the test of line 233 is missing, so a context
\* without a connection profile reaches launchSsmsDialog
Launch_unguarded(connectionContext) ==
    /\ registered
    /\ launches < MaxLaunch
    /\ launches' = launches + 1
    /\ IF connectionContext.kind = "undefined"
       THEN /\ effects' = Append(effects, [kind |-> "throw", error |-> "TypeError"])
            /\ procs' = procs
       ELSE IF connectionContext.kind = "noProfile"
       THEN /\ effects' =
                    IF hasExePath(exePath)
                    THEN effects \o
                         <<[kind |-> "telemetry", name |-> "LaunchSsmsDialog",
                            action |-> propertiesAction],
                           [kind |-> "throw", error |-> "TypeError"]>>
                    ELSE Append(effects,
                            [kind |-> "showErrorMessage",
                             message |-> "adminToolExtWin.noExeError"])
            /\ procs' = procs
       ELSE LET c == connectionContext.connectionProfile
                urn == <<"Server[@Name='">> \o toString(c.serverName) \o <<"']">>
                new == launchSsmsDialog(propertiesAction, c, urn)
            IN  /\ effects' = effects \o new
                /\ procs' = procs \o spawned(new, launchParams(c, urn))
    /\ UNCHANGED <<pickerVars, argsVars, platform, activation, download,
                   pathRequest, registered, exePath>>

(***************************************************************************)
(* Lines 232-236: the handler of the launch command.  Reading              *)
(* connectionProfile of an undefined context throws a TypeError.           *)
(***************************************************************************)
Launch(connectionContext) ==
    /\ registered
    /\ launches < MaxLaunch
    /\ launches' = launches + 1
    /\ IF connectionContext.kind = "undefined"
       THEN /\ effects' = Append(effects, [kind |-> "throw", error |-> "TypeError"])
            /\ procs' = procs
       ELSE IF connectionContext.kind = "noProfile"
       THEN /\ effects' = effects
            /\ procs' = procs
       ELSE LET c == connectionContext.connectionProfile
                urn == <<"Server[@Name='">> \o toString(c.serverName) \o <<"']">>
                new == launchSsmsDialog(propertiesAction, c, urn)
            IN  /\ effects' = effects \o new
                /\ procs' = procs \o spawned(new, launchParams(c, urn))
    /\ UNCHANGED <<pickerVars, argsVars, platform, activation, download,
                   pathRequest, registered, exePath>>

(***************************************************************************)
(* Lines 265-271: process n exits and the callback of exec runs.           *)
(***************************************************************************)
ProcExit(n, exit) ==
    /\ n \in DOMAIN procs
    /\ procs[n].state = "running"
    /\ procs' = [procs EXCEPT ![n].state = "exited"]
    /\ effects' = Append(effects,
            [kind |-> "telemetry", name |-> "LaunchSsmsDialogResult",
             proc |-> n,
             action |-> procs[n].params.action,
             returnCode |-> exit.code,
             error |-> exit.stderr])
    /\ UNCHANGED <<pickerVars, argsVars, platform, activation, download,
                   pathRequest, registered, exePath, launches>>

(***************************************************************************)
(* buildSsmsMinCommandArgs applied to an arbitrary                         *)
(* LaunchSsmsDialogParams value (lines 177-185).                           *)
(***************************************************************************)
OptStrings(value) == {undefinedStr, <<>>, value}

LaunchParamsSet ==
    [action : OptStrings(<<"act">>),
     server : OptStrings(<<"srv">>),
     database : OptStrings(<<"db">>),
     user : OptStrings(<<"sa">>),
     password : OptStrings(<<"pw">>),
     useAad : OptBool,
     urn : OptStrings(<<"urn">>)]

notBuilt == <<"<not built>">>

BuildArgs ==
    /\ args = notBuilt
    /\ args' = buildSsmsMinCommandArgs(params)
    /\ UNCHANGED <<pickerVars, launcherVars, params>>

(***************************************************************************)
(*                             Specifications                              *)
(***************************************************************************)
PickerIdle ==
    /\ writable = FALSE
    /\ registry = [m \in Modes |-> <<>>]
    /\ lineLength = [l \in Lines |-> 0]
    /\ selection = Range(1, 1, 1, 1)
    /\ inv = [i \in Invocations |-> idleInv]
    /\ formatCalls = <<>>
    /\ telemetry = <<>>
    /\ reveal = noReveal

LauncherIdle ==
    /\ platform = "win32"
    /\ activation = "notCalled"
    /\ download = "notRequested"
    /\ pathRequest = "notRequested"
    /\ registered = FALSE
    /\ exePath = undefinedStr
    /\ effects = <<>>
    /\ procs = <<>>
    /\ launches = 0

ArgsIdle ==
    /\ params = [action |-> <<>>, server |-> <<>>, database |-> <<>>, user |-> <<>>,
                 password |-> <<>>, useAad |-> "undefined", urn |-> <<>>]
    /\ args = notBuilt

InitPicker ==
    /\ writable \in BOOLEAN
    /\ registry \in [Modes -> ProviderLists]
    /\ lineLength \in Documents
    /\ selection \in Selections(lineLength)
    /\ inv = [i \in Invocations |-> idleInv]
    /\ formatCalls = <<>>
    /\ telemetry = <<>>
    /\ reveal = noReveal
    /\ LauncherIdle
    /\ ArgsIdle

NextPicker ==
    \/ \E i \in Invocations, mode \in Modes : Run(i, mode)
    \/ \E i \in Invocations, mode \in Modes : RunNoModel(i, mode)
    \/ \E i \in Invocations, k \in 1..NumProviders : TriggerItemButton(i, k)
    \/ \E i \in Invocations, k \in 1..NumProviders : PickEntry(i, k)
    \/ \E i \in Invocations : PickCancel(i)
    \/ \E i \in Invocations : FormatResolved(i)
    \/ \E i \in Invocations : FormatRejected(i)
    \/ \E sel \in Selections(lineLength) : SetSelection(sel)
    \/ \E mode \in Modes, list \in ProviderLists : RegistryChange(mode, list)

SpecPicker == InitPicker /\ [][NextPicker]_vars

InitLauncher ==
    /\ PickerIdle
    /\ ArgsIdle
    /\ platform \in {"win32", "linux"}
    /\ activation = "notCalled"
    /\ download = "notRequested"
    /\ pathRequest = "notRequested"
    /\ registered = FALSE
    /\ exePath = undefinedStr
    /\ effects = <<>>
    /\ procs = <<>>
    /\ launches = 0

NextLauncher ==
    \/ Activate
    \/ DownloadFulfilled
    \/ DownloadRejected
    \/ \E path \in ServerPaths : PathFulfilled(path)
    \/ PathRejected
    \/ \E connectionContext \in Contexts : Launch(connectionContext)
    \/ \E n \in 1..MaxLaunch, exit \in Exits : ProcExit(n, exit)

SpecLauncher == InitLauncher /\ [][NextLauncher]_vars

InitArgs ==
    /\ PickerIdle
    /\ LauncherIdle
    /\ params \in LaunchParamsSet
    /\ args = notBuilt

NextArgs == BuildArgs

SpecArgs == InitArgs /\ [][NextArgs]_vars

(***************************************************************************)
(*                     Properties of the picker commands                   *)
(***************************************************************************)
\* the elements of a log that come from invocation i
CallsBy(i) == {k \in DOMAIN formatCalls : formatCalls[k].by = i}

TelemetryBy(i) == {k \in DOMAIN telemetry : telemetry[k].by = i}

Cancelled(i) == inv[i].pc = "done" /\ inv[i].pick = undefined

Selected(i) ==
    inv[i].pc \in {"formatting", "done", "rejected"} /\ inv[i].pick # undefined

\* C1: when the quick pick of an invocation (either command) resolves with a
\* cancellation, that invocation makes no formatting call and emits exactly
\* one formatterpick record, whose pick is "none".
C1_CancelNoFormatOneTelemetry ==
    \A i \in Invocations :
        Cancelled(i) =>
            /\ CallsBy(i) = {}
            /\ Cardinality(TelemetryBy(i)) = 1
            /\ \A k \in TelemetryBy(i) :
                /\ telemetry[k].event = "formatterpick"
                /\ telemetry[k].pick = "none"

\* C1 witness: an invocation of "Format Selection With..." was cancelled.
C1_Witness ==
    \E i \in Invocations : Cancelled(i) /\ inv[i].mode = "range"

\* C2: when the entry built for position k of the fetched list is selected,
\* the invocation makes exactly one formatting call, its provider is the one
\* at position k of the list fetched by that invocation, and the telemetry
\* record of the invocation names that provider.
C2_IndexStability ==
    \A i \in Invocations :
        Selected(i) =>
            /\ inv[i].pick \in {picks(inv[i].provider)[k] :
                                    k \in DOMAIN inv[i].provider}
            /\ Cardinality(CallsBy(i)) = 1
            /\ \A c \in CallsBy(i) :
                formatCalls[c].provider = inv[i].provider[inv[i].pick.index + 1]
            /\ \A t \in TelemetryBy(i) :
                telemetry[t].pick =
                    extKey(inv[i].provider[inv[i].pick.index + 1])

\* C2 witness: the second entry was selected, formatting completed, and the
\* registry no longer holds the list the invocation fetched.
C2_Witness ==
    \E i \in Invocations :
        /\ inv[i].pc = "done"
        /\ inv[i].pick # undefined
        /\ inv[i].pick.index = 1
        /\ TelemetryBy(i) # {}
        /\ registry[inv[i].mode] # inv[i].provider

\* C3 (as stated): every invocation on an editor with a model whose picker
\* has settled and which has ended, also by a failed formatting call, has
\* emitted exactly one formatterpick record with its mode, the keys of all
\* offered providers and the picked provider or "none".
C3_AlwaysOneTelemetry ==
    \A i \in Invocations :
        inv[i].pc \in {"done", "rejected"} =>
            /\ Cardinality(TelemetryBy(i)) = 1
            /\ \A k \in TelemetryBy(i) :
                /\ telemetry[k].mode = inv[i].mode
                /\ telemetry[k].extensions =
                     [n \in DOMAIN inv[i].provider |-> extKey(inv[i].provider[n])]
                /\ telemetry[k].pick =
                     IF inv[i].pick = undefined
                     THEN "none"
                     ELSE extKey(inv[i].provider[inv[i].pick.index + 1])

\* the full line holding line number L of the document
FullLine(L) == Range(L, 1, L, lineLength[L] + 1)

ExpectedRange(sel) ==
    IF sel.startLineNumber = sel.endLineNumber /\ sel.startColumn = sel.endColumn
    THEN FullLine(sel.startLineNumber)
    ELSE sel

\* C8: the range of a "Format Selection With..." invocation is the selection
\* read when the command started if that selection is not empty, and the full
\* line [L,1 .. L,n+1] if it is collapsed on line L of length n; it is fixed
\* before the picker opens and is the range of the later formatting call.
C8_RangeIsSelectionOrFullLine ==
    \A i \in Invocations :
        (inv[i].mode = "range" /\ inv[i].pc \in {"picking", "formatting", "done", "rejected"}) =>
            /\ inv[i].range = ExpectedRange(inv[i].selection)
            /\ \A c \in CallsBy(i) :
                /\ formatCalls[c].fn = "formatDocumentRangeWithProvider"
                /\ formatCalls[c].range = ExpectedRange(inv[i].selection)

\* C8 witness: a range formatting call was made for a selection collapsed
\* past the first column of a non-empty line, after the selection had moved.
C8_Witness ==
    \E i \in Invocations :
        /\ inv[i].mode = "range"
        /\ CallsBy(i) # {}
        /\ isEmpty(inv[i].selection)
        /\ inv[i].selection.startColumn > 1
        /\ inv[i].selection.startLineNumber = MaxLine
        /\ selection # inv[i].selection

\* C9 (as stated): the "reveal extension" action of an entry opens the
\* extensions view with the query for the extension identifier of the
\* provider at the entry's position, or for "unknown" when the provider has
\* none, and raises no error.
C9_RevealOpensQuery ==
    reveal.outcome # "none" =>
        LET p == inv[reveal.by].provider[reveal.index + 1]
        IN  /\ reveal.outcome = "showExtensionQuery"
            /\ reveal.query =
                 "@id:" \o (IF p.extensionId # undefined
                            THEN p.extensionId.value
                            ELSE "unknown")

\* C15 (as stated): each picker command is enabled exactly when the list of
\* providers registered for it has two or more elements.
C15_EnabledIffTwoProviders ==
    \A mode \in Modes : precondition(mode) <=> Len(registry[mode]) >= 2

\* C15 (amended): each picker command is enabled exactly when the document
\* is writable and the list of providers registered for it has two or more
\* elements; the body of a picker command is started only while the command
\* is enabled, so that the picker of an invocation always offers two or
\* more entries.
C15_EnabledIffWritableAndTwoProviders ==
    /\ [](\A mode \in Modes :
            precondition(mode) <=> (writable /\ Len(registry[mode]) >= 2))
    /\ [][\A i \in Invocations, mode \in Modes :
            (Run(i, mode) \/ RunNoModel(i, mode)) =>
                writable /\ Len(registry[mode]) >= 2]_vars
    /\ [](\A i \in Invocations :
            inv[i].pc \in {"picking", "formatting", "done", "rejected"} =>
                Len(inv[i].provider) >= 2)

\* C15 witness: "Format Document With..." was started while enabled and its
\* picker is open; since then the registry has shrunk, so that now both
\* commands are disabled.
C15_Witness ==
    /\ \E i \in Invocations :
        /\ inv[i].pc = "picking"
        /\ inv[i].mode = "document"
        /\ Len(inv[i].provider) = 2
    /\ Len(registry["document"]) = 1
    /\ Len(registry["range"]) = 0
    /\ \A mode \in Modes : ~precondition(mode)

\* C16: while the picker of an invocation is open the invocation has made no
\* formatting call; a formatting call is made only in the step in which the
\* picker resolves with an entry; while that call is pending the invocation
\* has not returned and has emitted no formatterpick record; and the record
\* of an invocation with a selected entry is emitted only in the step in
\* which its formatting call completes, which is also when it returns.
C16_FormatAwaited ==
    /\ [](\A i \in Invocations :
            /\ inv[i].pc \in {"idle", "noModel", "picking"} =>
                    CallsBy(i) = {} /\ TelemetryBy(i) = {}
            /\ inv[i].pc = "formatting" =>
                    Cardinality(CallsBy(i)) = 1 /\ TelemetryBy(i) = {})
    /\ [][\A i \in Invocations :
            /\ formatCalls' # formatCalls /\ inv'[i] # inv[i] =>
                    inv[i].pc = "picking" /\ inv'[i].pc = "formatting"
            /\ (telemetry' # telemetry /\ inv'[i].pick # undefined) =>
                    /\ inv[i].pc = "formatting" /\ inv'[i].pc = "done"
                    /\ formatCalls' = formatCalls
            /\ (inv[i].pick # undefined /\ inv'[i].pc \in {"done", "rejected"}
                    /\ inv'[i] # inv[i]) =>
                    inv[i].pc = "formatting"]_vars

\* C16 witness: an entry of "Format Document With..." was selected and the
\* formatting call is pending: nothing has been logged.
C16_Witness ==
    \E i \in Invocations :
        /\ inv[i].pc = "formatting"
        /\ inv[i].mode = "document"
        /\ CallsBy(i) # {}
        /\ telemetry = <<>>

\* C17: a step that triggers the "reveal extension" button of an entry
\* leaves the invocation where it is (its picker open, no entry picked) and
\* adds no formatting call and no formatterpick record; and whatever was
\* revealed, an invocation that ended after a cancellation made no
\* formatting call and logged "none", and one in which entry k was selected
\* made its formatting call with the provider at position k.
C17_RevealIsNoSelection ==
    /\ [][\A i \in Invocations, k \in 1..NumProviders :
            (TriggerItemButton(i, k) \/ reveal' # reveal) =>
                /\ inv' = inv
                /\ formatCalls' = formatCalls
                /\ telemetry' = telemetry
                /\ inv[reveal'.by].pc = "picking"]_vars
    /\ [](reveal.outcome # "none" =>
            LET i == reveal.by
            IN  /\ inv[i].pc # "idle"
                /\ inv[i].pc = "picking" =>
                        /\ inv[i].pick = undefined
                        /\ CallsBy(i) = {} /\ TelemetryBy(i) = {}
                /\ Cancelled(i) =>
                        /\ CallsBy(i) = {}
                        /\ \A t \in TelemetryBy(i) : telemetry[t].pick = "none"
                /\ Selected(i) =>
                        \A c \in CallsBy(i) :
                            formatCalls[c].provider =
                                inv[i].provider[inv[i].pick.index + 1])

\* C17 witness: the button of the first entry was triggered, then the second
\* entry was selected and formatted with the second provider.
C17_Witness ==
    /\ reveal.outcome # "none"
    /\ reveal.index = 0
    /\ LET i == reveal.by
       IN  /\ inv[i].pc = "done"
           /\ inv[i].pick # undefined
           /\ inv[i].pick.index = 1
           /\ \E c \in CallsBy(i) : formatCalls[c].provider = inv[i].provider[2]

\* C20: a picker command started on an editor without a document returns
\* at once: the step records no formatting call, no formatterpick record and
\* no reveal, the invocation has fetched no provider list, opened no picker
\* and picked nothing, and it takes no further step.
C20_NoModelNoEffect ==
    /\ [][\A i \in Invocations, mode \in Modes :
            RunNoModel(i, mode) =>
                /\ inv'[i].pc = "noModel"
                /\ formatCalls' = formatCalls
                /\ telemetry' = telemetry
                /\ reveal' = reveal]_vars
    /\ [](\A i \in Invocations :
            inv[i].pc = "noModel" =>
                /\ inv[i].provider = <<>>
                /\ inv[i].pick = undefined
                /\ inv[i].range = undefined
                /\ CallsBy(i) = {}
                /\ TelemetryBy(i) = {}
                /\ reveal.by # i)
    /\ [][\A i \in Invocations :
            inv[i].pc = "noModel" => inv'[i] = inv[i]]_vars

\* C20 witness: "Format Selection With..." was started on an editor without
\* a document while two providers were registered, and has returned.
C20_Witness ==
    \E i \in Invocations :
        /\ inv[i].pc = "noModel"
        /\ inv[i].mode = "range"
        /\ Len(registry["range"]) = 2
        /\ formatCalls = <<>>
        /\ telemetry = <<>>

(***************************************************************************)
(*                        Properties of the launcher                       *)
(***************************************************************************)
\* the places of the effects log that concern process n
ExecOf(n) == {k \in DOMAIN effects : effects[k].kind = "exec" /\ effects[k].proc = n}

StdinOf(n) ==
    {k \in DOMAIN effects : effects[k].kind = "stdin.end" /\ effects[k].proc = n}

IsTelemetry(e, name) == e.kind = "telemetry" /\ e.name = name

IsError(e, message) == e.kind = "showErrorMessage" /\ e.message = message

HasProfile(connectionContext) == connectionContext.kind = "profile"

noExeError ==
    [kind |-> "showErrorMessage", message |-> "adminToolExtWin.noExeError"]

\* C4: for every spawned process, when the connection uses the alternate
\* authentication mode the input stream is never written or closed;
\* otherwise exactly one value is written, the password or the empty string
\* when there is none, with the call that closes the stream, after the spawn.
C4_StdinPassword ==
    \A n \in DOMAIN procs :
        /\ Cardinality(ExecOf(n)) = 1
        /\ IF procs[n].params.useAad = "true"
           THEN StdinOf(n) = {}
           ELSE /\ Cardinality(StdinOf(n)) = 1
                /\ \A k \in StdinOf(n) :
                    /\ effects[k].data =
                         (IF procs[n].params.password \in {undefinedStr, <<>>}
                          THEN <<>>
                          ELSE procs[n].params.password)
                    /\ \A e \in ExecOf(n) : e < k

\* C4 witness: a process launched with alternate authentication and a
\* process launched without it and without a password both exist.
C4_Witness ==
    \E n, m \in DOMAIN procs :
        /\ procs[n].params.useAad = "true"
        /\ procs[n].params.password = <<"pw">>
        /\ procs[m].params.useAad = "false"
        /\ procs[m].params.password = undefinedStr
        /\ StdinOf(m) # {}

\* C5: while no executable path is cached, a launch command invoked with a
\* connection profile shows the error notification and does nothing else (no
\* process, no input stream write, no launch telemetry); and a process is
\* spawned only while a path is cached.
C5_NoPathNoSpawn ==
    [][/\ \A c \in Contexts :
            (HasProfile(c) /\ Launch(c) /\ exePath \in {undefinedStr, <<>>}) =>
                /\ effects' = Append(effects, noExeError)
                /\ procs' = procs
       /\ Len(procs') > Len(procs) => exePath \notin {undefinedStr, <<>>}]_vars

\* C5 witness: the error notification was shown while activation was still
\* pending, and no process exists.
C5_Witness ==
    /\ activation = "pending"
    /\ \E k \in DOMAIN effects : effects[k] = noExeError
    /\ procs = <<>>

\* C7 (as stated): on the matching platform activation is resolved once the
\* download has failed, and once the path request has settled, however it
\* settled; it never stays pending then.
C7_ActivationResolves ==
    platform = "win32" =>
        /\ download = "rejected" => activation = "resolved"
        /\ pathRequest \in {"fulfilled", "rejected"} => activation = "resolved"

unsupportedError ==
    [kind |-> "showErrorMessage",
     message |-> "adminToolExtWin.onlySupportedOnWindows"]

IsStartupTelemetry(e) ==
    \/ IsTelemetry(e, "startup/ExtensionStarted")
    \/ IsTelemetry(e, "startup/ExtensionInitializationFailed")

ResultOf(n) ==
    {k \in DOMAIN effects :
        IsTelemetry(effects[k], "LaunchSsmsDialogResult") /\ effects[k].proc = n}

LaunchEvents ==
    {k \in DOMAIN effects : IsTelemetry(effects[k], "LaunchSsmsDialog")}

\* C12: every launch that passes the path precondition emits exactly one
\* LaunchSsmsDialog event, directly before it spawns its process; a
\* LaunchSsmsDialogResult event exists for a process only once it has exited,
\* at most once, after the launch event and the spawn of that process; and
\* it is appended by the exit with the action, the exit code and the
\* captured standard-error text.
C12_LaunchAndResultTelemetry ==
    /\ [](/\ Cardinality(LaunchEvents) = Len(procs)
          /\ \A n \in DOMAIN procs :
                /\ Cardinality(ExecOf(n)) = 1
                /\ \A e \in ExecOf(n) :
                    /\ e - 1 \in LaunchEvents
                    /\ effects[e - 1].action = propertiesAction
                    /\ \A k \in ResultOf(n) : e < k
                /\ Cardinality(ResultOf(n)) =
                        (IF procs[n].state = "exited" THEN 1 ELSE 0))
    /\ [][\A n \in 1..MaxLaunch, exit \in Exits :
            ProcExit(n, exit) =>
                effects' = Append(effects,
                    [kind |-> "telemetry", name |-> "LaunchSsmsDialogResult",
                     proc |-> n,
                     action |-> propertiesAction,
                     returnCode |-> exit.code,
                     error |-> exit.stderr])]_vars
    /\ [][\A c \in Contexts :
            (HasProfile(c) /\ Launch(c) /\ hasExePath(exePath)) =>
                /\ Len(procs') = Len(procs) + 1
                /\ Len(effects') >= Len(effects) + 2
                /\ IsTelemetry(effects'[Len(effects) + 1], "LaunchSsmsDialog")
                /\ effects'[Len(effects) + 2].kind = "exec"
                /\ \A k \in (Len(effects) + 1)..Len(effects') :
                    ~IsTelemetry(effects'[k], "LaunchSsmsDialogResult")]_vars

\* C12 witness: two processes were spawned; the second has exited with a
\* non-zero code and standard-error text, the first is still running.
C12_Witness ==
    /\ Len(procs) = 2
    /\ procs[1].state = "running"
    /\ procs[2].state = "exited"
    /\ \E k \in ResultOf(2) :
        /\ effects[k].returnCode = 1
        /\ effects[k].error = <<"failed">>

\* C13: in every interleaving of activation and launch commands the cached
\* executable path changes at most once, from unset to a non-empty path, and
\* only in the step in which the path request of activation is fulfilled
\* after a successful download; a launch command leaves it as it is; and
\* every process spawned so far was started from the path cached now.
C13_ExePathWrittenOnce ==
    /\ [][exePath' # exePath =>
            /\ exePath = undefinedStr
            /\ truthy(exePath')
            /\ download = "fulfilled"
            /\ pathRequest = "pending" /\ pathRequest' = "fulfilled"
            /\ PathFulfilled(exePath')]_vars
    /\ [][\A c \in Contexts : Launch(c) => exePath' = exePath]_vars
    /\ [][truthy(exePath) => exePath' = exePath]_vars
    /\ [](\A n \in DOMAIN procs : \A e \in ExecOf(n) :
            /\ truthy(exePath)
            /\ SubSeq(effects[e].command, 1, Len(exePath) + 2)
                    = <<"\"">> \o exePath \o <<"\"">>)

\* C13 witness: a launch made while activation was pending found no path,
\* and a launch made after the path was cached spawned a process from it.
C13_Witness ==
    /\ truthy(exePath)
    /\ \E k, l \in DOMAIN effects :
        /\ k < l
        /\ effects[k] = noExeError
        /\ effects[l].kind = "exec"

\* C18: a launch that spawns a process ends with that process running and
\* its input stream closed (when not alternate authentication), and leaves
\* every process spawned before as it was, running or not; a launch command
\* can be invoked whatever processes are running; the exit of a process
\* changes that process alone and appends one result event for it; and a
\* launch keeps every event recorded before it and adds no result event.
C18_LaunchDoesNotWait ==
    /\ [][\A c \in Contexts :
            (Launch(c) /\ Len(procs') > Len(procs)) =>
                /\ Len(procs') = Len(procs) + 1
                /\ procs'[Len(procs')].state = "running"
                /\ SubSeq(procs', 1, Len(procs)) = procs
                /\ SubSeq(effects', 1, Len(effects)) = effects
                /\ \A k \in (Len(effects) + 1)..Len(effects') :
                    ~IsTelemetry(effects'[k], "LaunchSsmsDialogResult")
                /\ effects'[Len(effects')].kind =
                        (IF procs'[Len(procs')].params.useAad = "true"
                         THEN "exec" ELSE "stdin.end")]_vars
    /\ [][\A n \in 1..MaxLaunch, exit \in Exits :
            ProcExit(n, exit) =>
                /\ procs[n].state = "running"
                /\ procs' = [procs EXCEPT ![n].state = "exited"]
                /\ Len(effects') = Len(effects) + 1
                /\ Len(effects') \in {k \in DOMAIN effects' :
                        /\ IsTelemetry(effects'[k], "LaunchSsmsDialogResult")
                        /\ effects'[k].proc = n}
                /\ launches' = launches /\ exePath' = exePath]_vars
    /\ []((registered /\ launches < MaxLaunch) =>
            \A c \in Contexts : ENABLED Launch(c))

\* C18 witness: two processes ran at once and the second one exited first:
\* its result event precedes the result event of the first.
C18_Witness ==
    /\ Len(procs) = 2
    /\ \E k \in ResultOf(1), l \in ResultOf(2) :
        /\ l < k
        /\ \A e \in ExecOf(2) : e < l

\* C19: a launch command invoked with a context object that carries no
\* connection profile changes nothing: no notification, no telemetry event
\* and no other effect is recorded, no process is spawned and the cached
\* executable path stays as it is, be it set or not.
C19_NoProfileNoEffect ==
    [][Launch([kind |-> "noProfile"]) =>
            /\ effects' = effects
            /\ procs' = procs
            /\ exePath' = exePath
            /\ UNCHANGED <<activation, download, pathRequest, registered>>]_vars

\* C19 witness: with a path cached, every launch command so far was invoked
\* without a connection profile: activation's event is all that is recorded.
C19_Witness ==
    /\ truthy(exePath)
    /\ launches = MaxLaunch
    /\ procs = <<>>
    /\ effects = <<[kind |-> "telemetry", name |-> "startup/ExtensionStarted"]>>

(***************************************************************************)
(*                  Properties of buildSsmsMinCommandArgs                  *)
(***************************************************************************)
\* text t occurs in text s
Contains(s, t) ==
    \E k \in 1..(Len(s) - Len(t) + 1) : SubSeq(s, k, k + Len(t) - 1) = t

FlagU == <<"-", "U">>

FlagG == <<"-", "G">>

\* the places of text s at which flag f starts
FlagAt(s, f) == {k \in 1..(Len(s) - 1) : SubSeq(s, k, k + 1) = f}

\* flag f at place k of s is followed by a space and value in double quotes
QuotedValueAt(s, k, f, value) ==
    LET seg == f \o <<" ", "\"">> \o value \o <<"\"">>
    IN  /\ k + Len(seg) - 1 <= Len(s)
        /\ SubSeq(s, k, k + Len(seg) - 1) = seg

\* the flags of the grammar in their order; -U and -G share a place
FlagOrder == <<{<<"-", "a">>}, {<<"-", "S">>}, {<<"-", "D">>}, {FlagU, FlagG},
               {<<"-", "u">>}>>

\* the fields that own a flag with a value, with their flags
ValueFlags ==
    {<<"action", <<"-", "a">>>>, <<"server", <<"-", "S">>>>,
     <<"database", <<"-", "D">>>>, <<"urn", <<"-", "u">>>>}

\* C14: in the argument string every flag occurs at most once and the flags
\* occur in the order -a, -S, -D, -U or -G, -u; each of -a, -S, -D, -u
\* occurs exactly when its field is set (not absent and not empty), followed
\* by the value of the field in double quotes; a field that is not set
\* leaves no flag and no quoted text, so that the string holds two quotes
\* for each flag that carries a value and nothing but spaces otherwise.
C14_FlagsInOrderIffSet ==
    args # notBuilt =>
        /\ \A i \in DOMAIN FlagOrder : \A f \in FlagOrder[i] :
                /\ Cardinality(FlagAt(args, f)) <= 1
                /\ \A j \in DOMAIN FlagOrder : \A g \in FlagOrder[j] :
                    i < j => \A k \in FlagAt(args, f), l \in FlagAt(args, g) : k < l
        /\ \A fv \in ValueFlags :
                /\ FlagAt(args, fv[2]) # {} <=> truthy(params[fv[1]])
                /\ \A k \in FlagAt(args, fv[2]) :
                    QuotedValueAt(args, k, fv[2], params[fv[1]])
        /\ Cardinality({k \in DOMAIN args : args[k] = "\""}) =
                2 * Cardinality({fv \in ValueFlags \cup {<<"user", FlagU>>} :
                                    FlagAt(args, fv[2]) # {}})
        /\ LET flagged ==
                    UNION {k..(k + 1) : k \in UNION {FlagAt(args, f) :
                                f \in UNION {FlagOrder[i] : i \in DOMAIN FlagOrder}}}
                quoted ==
                    {k \in DOMAIN args :
                        \E a, b \in DOMAIN args :
                            a <= k /\ k <= b /\ args[a] = "\"" /\ args[b] = "\""
                            /\ Cardinality({q \in 1..a : args[q] = "\""}) % 2 = 1
                            /\ Cardinality({q \in 1..b : args[q] = "\""}) % 2 = 0
                            /\ \A q \in (a + 1)..(b - 1) : args[q] # "\""}
            IN  \A k \in DOMAIN args \ (flagged \cup quoted) : args[k] = " "

\* C14 witness: the string was built from parameters with action, database
\* and urn set, the server empty and the authentication mode absent.
C14_Witness ==
    /\ args # notBuilt
    /\ params.action = <<"act">>
    /\ params.server = <<>>
    /\ params.database = <<"db">>
    /\ params.urn = <<"urn">>
    /\ params.useAad = "undefined"
    /\ FlagAt(args, <<"-", "S">>) = {}

\* C6: the argument string holds exactly one of the flags -U and -G: -G and
\* no -U when useAad is true, -U "<user>" and no -G when useAad is false or
\* absent; and the password does not occur in it.  (The values of the fields
\* are taken not to spell a flag or the password themselves.)
C6_ExactlyOneOfUserAndAad ==
    args # notBuilt =>
        /\ Contains(args, FlagU) # Contains(args, FlagG)
        /\ IF params.useAad = "true"
           THEN Contains(args, FlagG) /\ ~Contains(args, FlagU)
           ELSE /\ Contains(args, FlagU \o <<" ", "\"">>
                                \o (IF params.user = undefinedStr
                                    THEN <<"u", "n", "d", "e", "f", "i", "n", "e", "d">>
                                    ELSE params.user)
                                \o <<"\"">>)
                /\ ~Contains(args, FlagG)
        /\ params.password \notin {undefinedStr, <<>>} =>
                ~Contains(args, params.password)

\* C6 witness: the string was built for alternate authentication from
\* parameters that carry a user and a password.
C6_Witness ==
    /\ args # notBuilt
    /\ params.useAad = "true"
    /\ params.user = <<"sa">>
    /\ params.password = <<"pw">>
    /\ params.action = <<"act">>

====
